---- MODULE Spec2Model ----
(***************************************************************************)
(* Agent0-Lite sidecar: the /health, /polish and /delegate endpoints       *)
(* behind the trace middleware (src/agent0-lite/app.py, src/app.py), the   *)
(* vs_bias_prompt contract (src/contracts/vs_bias_prompt.py), the polish   *)
(* transformer (src/polish/vs_bias.py) and the ENV+YAML config resolution. *)
(*                                                                         *)
(* Python dicts are functions whose DOMAIN is the set of keys present.     *)
(* A str the code works on character by character (strip, split, lower,    *)
(* len, join) is a sequence of one-character strings; a str the code only  *)
(* compares or copies is a TLA+ string.                                    *)
(* Time is counted in whole seconds since the health handler armed its     *)
(* overall deadline.                                                       *)
(***************************************************************************)
EXTENDS Integers, Sequences, FiniteSets, TLC

VARIABLES
    cfg,        \* the configuration snapshot the endpoints read
    pc,         \* where the request in flight stands
    req,        \* the request in flight: [path, headers, body]
    mwTid,      \* tid of _trace_logger (the middleware)
    tid,        \* tid of the endpoint handler
    now,        \* seconds elapsed since asyncio.wait_for armed the deadline
    netIdx,     \* position of the `for host in ALLOWED_HOSTS` loop
    net,        \* health._do: net
    out,        \* _provider_probe: out
    httpSent,   \* providers an HTTP GET was issued to during this request
    finishedAt, \* {time _do returned its payload}, {} while it has not
    probes,     \* the _probe_host calls of this request, in call order
    resp,       \* the response: [status, headers, content, at]
    uuidCtr,    \* number of uuid.uuid4() values drawn so far
    served,     \* requests received so far
    payload,    \* validate_vs_bias_prompt: payload
    contract,   \* the outcome of validate_vs_bias_prompt(payload)
    polished,   \* the values polish_vs_bias_prompt(contract) returned, in order
    clock,      \* datetime.utcnow()
    env,        \* os.environ: each variable is {} (unset) or {value}
    yaml,       \* _raw, the document _load_yaml(CFG_PATH) returned
    resolved    \* the module-level configuration values, {} before start-up

hvars == <<cfg, pc, req, mwTid, tid, now, netIdx, net, out, httpSent,
           finishedAt, probes, resp, uuidCtr, served>>
cvars == <<payload, contract, polished, clock>>
gvars == <<env, yaml, resolved>>
vars == <<hvars, cvars, gvars>>

----------------------------------------------------------------------------
(* Bounds of the model *)

\* requests the server receives in one behaviour
MaxRequests == 1
\* longest time socket.gethostbyname may block (it takes no timeout argument)
MaxDnsTime == 6

----------------------------------------------------------------------------
(* Python dict helpers *)

EmptyDict == [k \in {} |-> TRUE]

Put(d, k, v) == [j \in DOMAIN d \cup {k} |-> IF j = k THEN v ELSE d[j]]

Max(a, b) == IF a >= b THEN a ELSE b

\* the contract pipeline and the config resolution when a specification
\* does not exercise them
NotValidated == [status |-> "pending", value |-> {}, errors |-> {}]
ContractIdle ==
    payload = EmptyDict /\ contract = NotValidated /\ polished = <<>> /\ clock = 0
ConfigIdle == env = EmptyDict /\ yaml = EmptyDict /\ resolved = {}

----------------------------------------------------------------------------
(* str operations *)

\* the whitespace str.strip() removes, among the characters the model uses
Whitespace == {" ", "\t", "\n", "\r", "\f"}

\* n times the character c
Rep(c, n) == [i \in 1..n |-> c]

\* the scans of str.strip(): the first index from the left, the last from
\* the right, that holds no whitespace
RECURSIVE LeftScan(_, _)
LeftScan(s, i) ==
    IF i <= Len(s) /\ s[i] \in Whitespace THEN LeftScan(s, i + 1) ELSE i

RECURSIVE RightScan(_, _, _)
RightScan(s, i, j) ==
    IF j >= i /\ s[j] \in Whitespace THEN RightScan(s, i, j - 1) ELSE j

\* a strip that only removes the leading whitespace
Strip_LeftOnly(s) == SubSeq(s, LeftScan(s, 1), Len(s))

\* s.strip()
Strip(s) ==
    LET i == LeftScan(s, 1)
    IN  SubSeq(s, i, RightScan(s, i, Len(s)))

\* sep.join(parts)
RECURSIVE Join(_, _)
Join(sep, parts) ==
    IF parts = <<>> THEN <<>>
    ELSE IF Len(parts) = 1 THEN parts[1]
    ELSE parts[1] \o sep \o Join(sep, Tail(parts))

----------------------------------------------------------------------------
(* contracts/vs_bias_prompt.py *)

MinUserQuery == 10
MaxUserQuery == 2000
MinEngineeredPrompt == 50
MaxEngineeredPrompt == 5000
MaxNotesForLite == 1000
MinBiasDimensions == 1
MaxBiasDimensions == 7

Gender ==
    <<"g","e","n","d","e","r">>

Race ==
    <<"r","a","c","e">>

Age ==
    <<"a","g","e">>

Disability ==
    <<"d","i","s","a","b","i","l","i","t","y">>

Religion ==
    <<"r","e","l","i","g","i","o","n">>

Nationality ==
    <<"n","a","t","i","o","n","a","l","i","t","y">>

SexualOrientation ==
    <<"s","e","x","u","a","l","_","o","r","i","e","n","t","a","t","i","o","n">>

Political ==
    <<"p","o","l","i","t","i","c","a","l">>

\* "### BIAS DIMENSIONS TO ANALYZE\n- Target dimensions: "
HeaderHead ==
    <<"#","#","#"," ","B","I","A","S"," ","D","I","M","E","N","S","I","O","N","S"," ","T","O"," ","A",
    "N","A","L","Y","Z","E","\n","-"," ","T","a","r","g","e","t"," ","d","i","m","e","n","s","i",
    "o","n","s",":"," ">>

\* "\n\n", the end of the header
HeaderTail ==
    <<"\n","\n">>

\* the footer string of polish_vs_bias_prompt
Footer ==
    <<"\n","\n","#","#","#"," ","C","L","A","R","I","F","I","C","A","T","I","O","N"," ","F","O","R",
    " ","T","H","E"," ","M","O","D","E","L","\n","F","o","r"," ","e","a","c","h"," ","g","e","n",
    "e","r","a","t","e","d"," ","r","e","s","p","o","n","s","e"," ","v","a","r","i","a","n","t",":",
    "\n","-"," ","E","x","p","l","i","c","i","t","l","y"," ","d","i","s","c","u","s","s"," ","h",
    "o","w"," ","i","t"," ","m","a","y"," ","r","e","f","l","e","c","t"," ","b","i","a","s"," ","a",
    "c","r","o","s","s"," ","t","h","e"," ","l","i","s","t","e","d"," ","d","i","m","e","n","s","i",
    "o","n","s",".","\n","-"," ","E","s","t","i","m","a","t","e"," ","t","h","e"," ","p","r","o",
    "b","a","b","i","l","i","t","y"," ","t","h","a","t"," ","a"," ","p","r","o","d","u","c","t","i",
    "o","n"," ","m","o","d","e","l"," ","w","o","u","l","d"," ","o","u","t","p","u","t"," ","i","t",
    ".","\n","-"," ","H","i","g","h","l","i","g","h","t"," ","w","h","i","c","h"," ","d","i","m",
    "e","n","s","i","o","n","s"," ","a","r","e"," ","m","o","s","t"," ","a","f","f","e","c","t","e",
    "d"," ","a","n","d"," ","w","h","y",".","\n">>

\* ", "
CommaSpace ==
    <<","," ">>

\* valid, in VSBiasContent.validate_dimensions
ValidDimensions ==
    {Gender, Race, Age, Disability, Religion, Nationality, SexualOrientation}

\* default_factory of bias_dimensions
DefaultBiasDimensions == <<Gender, Race, Age>>

ArtifactTypeDefault == "vs_bias_prompt"

\* a length check whose lower bound is exclusive
StrLengthOk_Exclusive(v, lo, hi) == Len(v) > lo /\ Len(v) <= hi

\* Field(min_length=lo, max_length=hi) on a str
StrLengthOk(v, lo, hi) == Len(v) >= lo /\ Len(v) <= hi

\* Field(min_items=1, max_items=7) on bias_dimensions
ItemCountOk(v) == Len(v) >= MinBiasDimensions /\ Len(v) <= MaxBiasDimensions

\* VSBiasContent.validate_dimensions: TRUE when it returns v, FALSE when it
\* raises ValueError
validate_dimensions(v) == \A i \in 1..Len(v) : v[i] \in ValidDimensions

\* the fields of VSBiasContent that fail on the dict c
VSBiasContentErrors(c) ==
    {f \in {"user_query"} :
        \/ f \notin DOMAIN c
        \/ ~StrLengthOk(c[f], MinUserQuery, MaxUserQuery)}
    \cup
    {f \in {"engineered_prompt"} :
        \/ f \notin DOMAIN c
        \/ ~StrLengthOk(c[f], MinEngineeredPrompt, MaxEngineeredPrompt)}
    \cup
    {f \in {"notes_for_lite"} :
        /\ f \in DOMAIN c
        /\ ~StrLengthOk(c[f], 0, MaxNotesForLite)}
    \cup
    {f \in {"bias_dimensions"} :
        /\ f \in DOMAIN c
        /\ ~(ItemCountOk(c[f]) /\ validate_dimensions(c[f]))}

\* the VSBiasContent built from a dict c that passes; an Optional is {} for
\* None and {v} for a value
VSBiasContent(c) ==
    [user_query |-> c.user_query,
     engineered_prompt |-> c.engineered_prompt,
     notes_for_lite |->
        IF "notes_for_lite" \in DOMAIN c THEN {c.notes_for_lite} ELSE {},
     bias_dimensions |->
        IF "bias_dimensions" \in DOMAIN c THEN c.bias_dimensions
        ELSE DefaultBiasDimensions]

\* a check_artifact_type that accepts every value
check_artifact_type_Any(v) == TRUE

\* VSBiasPromptContract.check_artifact_type, after Field(const=True): TRUE
\* when v passes both
check_artifact_type(v) == v = ArtifactTypeDefault /\ ~(v # "vs_bias_prompt")

\* the locations (loc tuples) of the errors VSBiasPromptContract(**p) collects
VSBiasPromptContractErrors(p) ==
    {<<f>> : f \in {g \in {"artifact_type"} :
                       g \in DOMAIN p /\ ~check_artifact_type(p[g])}}
    \cup {<<f>> : f \in {g \in {"content", "context", "polish_instructions"} :
                            g \notin DOMAIN p}}
    \cup (IF "content" \in DOMAIN p
          THEN {<<"content", f>> : f \in VSBiasContentErrors(p.content)}
          ELSE {})

\* the VSBiasPromptContract built from a dict p that passes
VSBiasPromptContract(p) ==
    [artifact_type |->
        IF "artifact_type" \in DOMAIN p THEN p.artifact_type
        ELSE ArtifactTypeDefault,
     content |-> VSBiasContent(p.content),
     context |-> p.context,
     polish_instructions |-> p.polish_instructions,
     request_id |-> IF "request_id" \in DOMAIN p THEN {p.request_id} ELSE {}]

\* validate_vs_bias_prompt(payload): the contract, or the ValidationError
validate_vs_bias_prompt(p) ==
    LET errors == VSBiasPromptContractErrors(p)
    IN  IF errors = {}
        THEN [status |-> "valid", value |-> {VSBiasPromptContract(p)},
              errors |-> {}]
        ELSE [status |-> "error", value |-> {}, errors |-> errors]

----------------------------------------------------------------------------
(* polish/vs_bias.py *)

\* polish_vs_bias_prompt(contract), called when datetime.utcnow() is t
polish_vs_bias_prompt(c, t) ==
    LET content == c.content
        bias_list == Join(CommaSpace, content.bias_dimensions)
        header == HeaderHead \o bias_list \o HeaderTail
        improved_prompt == header \o Strip(content.engineered_prompt) \o Footer
    IN  [polished_artifact |->
            [user_query |-> content.user_query,
             engineered_prompt |-> improved_prompt,
             notes_for_lite |-> content.notes_for_lite,
             bias_dimensions |-> content.bias_dimensions],
         polish_report |->
            [summary |-> "Added explicit bias dimensions header and clarification block.",
             details |-> <<"Prepended a markdown header listing all bias dimensions.",
                           "Appended explicit instructions for how to handle each dimension.",
                           "Preserved original user query and bias dimensions.">>,
             artifact_type |-> c.artifact_type,
             timestamp |-> t]]

----------------------------------------------------------------------------
(* Configuration defaults *)

DefaultHealthOverall == 8
DefaultConnect == 3
DefaultRead == 5

----------------------------------------------------------------------------
(* Config resolution (module level of app.py) *)

UpperChars == <<"A","B","C","D","E","F","G","H","I","J","K","L","M",
                "N","O","P","Q","R","S","T","U","V","W","X","Y","Z">>
LowerChars == <<"a","b","c","d","e","f","g","h","i","j","k","l","m",
                "n","o","p","q","r","s","t","u","v","w","x","y","z">>

\* s.lower()
Lower(s) ==
    [i \in 1..Len(s) |->
        IF \E k \in 1..Len(UpperChars) : UpperChars[k] = s[i]
        THEN LowerChars[CHOOSE k \in 1..Len(UpperChars) : UpperChars[k] = s[i]]
        ELSE s[i]]

\* s.split(",")
RECURSIVE Split(_, _)
Split(s, cur) ==
    IF s = <<>> THEN <<cur>>
    ELSE IF Head(s) = "," THEN <<cur>> \o Split(Tail(s), <<>>)
    ELSE Split(Tail(s), Append(cur, Head(s)))

IsTruthy(x) == x # <<>>

\* [f(x) for x in xs]
Normalised(xs) == [i \in 1..Len(xs) |-> Lower(Strip(xs[i]))]

\* _split_csv(v): v is {} for None and {s} for a str
_split_csv(v) ==
    LET str == IF v = {} THEN <<>> ELSE CHOOSE x \in v : TRUE
        parts == Split(str, <<>>)
        keep(x) == IsTruthy(Strip(x))
    IN  Normalised(SelectSeq(parts, keep))

Digits == <<"0","1","2","3","4","5","6","7","8","9">>

\* int(s) of a decimal str
RECURSIVE int(_)
int(s) ==
    IF s = <<>> THEN 0
    ELSE 10 * int(SubSeq(s, 1, Len(s) - 1))
         + (CHOOSE d \in 0..9 : Digits[d + 1] = s[Len(s)])

\* str(n) of a natural number
RECURSIVE str(_)
str(n) ==
    IF n < 10 THEN <<Digits[n + 1]>>
    ELSE Append(str(n \div 10), Digits[(n % 10) + 1])

\* os.getenv(name): {} for None
getenv(e, name) == e[name]

\* os.getenv(name, default)
getenvOr(e, name, default) ==
    IF e[name] = {} THEN default ELSE CHOOSE v \in e[name] : TRUE

\* d.get(k, default)
Get(d, k, default) == IF k \in DOMAIN d THEN d[k] ELSE default

\* d.get(k) or default, for a list
GetOr(d, k, default) ==
    IF k \in DOMAIN d /\ IsTruthy(d[k]) THEN d[k] ELSE default

DefaultPort == 4040
DefaultDns == 2

DefaultAllowProviders ==
    << <<"o","p","e","n","a","i">>,
       <<"g","r","o","q">> >>

DefaultDenyProviders ==
    << <<"o","p","e","n","r","o","u","t","e","r">>,
       <<"a","n","t","h","r","o","p","i","c">>,
       <<"t","o","g","e","t","h","e","r">>,
       <<"r","e","p","l","i","c","a","t","e">>,
       <<"c","o","h","e","r","e">>,
       <<"g","e","m","i","n","i">> >>

DefaultAllowedHosts ==
    << <<"a","p","i",".","o","p","e","n","a","i",".","c","o","m">>,
       <<"a","p","i",".","g","r","o","q",".","c","o","m">> >>

\* _split_csv(os.getenv(NAME)) or [s.strip().lower() for s in (section.get(key) or default)]
CsvSetting(e, name, section, key, default) ==
    LET fromEnv == _split_csv(getenv(e, name))
    IN  IF IsTruthy(fromEnv) THEN fromEnv
        ELSE Normalised(GetOr(section, key, default))

\* int(os.getenv(NAME, str(section.get(key, default))))
IntSetting(e, name, section, key, default) ==
    int(getenvOr(e, name, str(Get(section, key, default))))

\* the configuration values of the module after import, from os.environ e
\* and the YAML document y
ResolveConfig(e, y) ==
    LET providers == Get(y, "providers", EmptyDict)
        network == Get(y, "network", EmptyDict)
        timeouts == Get(y, "timeouts", EmptyDict)
    IN  [SERVICE_NAME |->
            getenvOr(e, "SERVICE_NAME", Get(y, "service_name", "agent0-lite")),
         BUILD_VERSION |->
            getenvOr(e, "BUILD_VERSION", Get(y, "build_version", "phase1")),
         PORT |-> IntSetting(e, "PORT", y, "port", DefaultPort),
         ALLOW_PROVIDERS |->
            CsvSetting(e, "ALLOW_PROVIDERS", providers, "allow",
                       DefaultAllowProviders),
         DENY_PROVIDERS |->
            CsvSetting(e, "DENY_PROVIDERS", providers, "deny",
                       DefaultDenyProviders),
         ALLOWED_HOSTS |->
            CsvSetting(e, "ALLOWED_HOSTS", network, "allowed_hosts",
                       DefaultAllowedHosts),
         T_HEALTH_OVERALL |->
            IntSetting(e, "T_HEALTH_OVERALL", timeouts, "health_overall",
                       DefaultHealthOverall),
         T_DNS |-> IntSetting(e, "T_DNS", timeouts, "dns", DefaultDns),
         T_CONNECT |->
            IntSetting(e, "T_CONNECT", timeouts, "connect", DefaultConnect),
         T_READ |-> IntSetting(e, "T_READ", timeouts, "read", DefaultRead),
         OPENAI_API_KEY |-> getenvOr(e, "OPENAI_API_KEY", ""),
         GROQ_API_KEY |-> getenvOr(e, "GROQ_API_KEY", "")]

----------------------------------------------------------------------------
(* Trace ids *)

TraceKeys == <<"x-trace-id", "x-request-id", "trace-id",
               "X-Trace-Id", "X-Request-Id", "Trace-Id">>

\* uuid.uuid4().hex: the n-th value drawn differs from every other one
Uuid4Hex(n) == "uuid4-" \o ToString(n)

\* the for loop of _trace: the first key of TraceKeys with a truthy value,
\* "" when there is none
RECURSIVE TraceLookup(_, _)
TraceLookup(headers, i) ==
    IF i > Len(TraceKeys) THEN ""
    ELSE IF TraceKeys[i] \in DOMAIN headers /\ headers[TraceKeys[i]] # ""
         THEN headers[TraceKeys[i]]
         ELSE TraceLookup(headers, i + 1)

\* _trace(headers) with n uuids drawn before the call: the tid and the
\* number of uuids drawn after it (fallback is never passed)
_trace(headers, n) ==
    LET v == TraceLookup(headers, 1)
    IN  IF v # "" THEN [tid |-> v, ctr |-> n]
        ELSE [tid |-> Uuid4Hex(n + 1), ctr |-> n + 1]

----------------------------------------------------------------------------
(* Probes *)

\* _probe_host: dns is the outcome of socket.gethostbyname, conn the outcome
\* of socket.create_connection; connects counts the connect attempts made
DnsOutcomes == {"resolved", "gaierror"}
ConnOutcomes == {"connected", "refused", "timed out"}

\* socket.gaierror, ConnectionRefusedError and socket.timeout are OSErrors,
\* hence instances of Exception
Exceptions == {"gaierror", "refused", "timed out"}

\* the `try:` block: create_connection is called once, with the address
\* gethostbyname returned, and only when gethostbyname returned
ProbeAttempt(dns, conn) ==
    IF dns # "resolved" THEN [raised |-> dns, connects |-> 0]
    ELSE IF conn # "connected" THEN [raised |-> conn, connects |-> 1]
    ELSE [raised |-> "", connects |-> 1]

\* `except socket.gaierror` in place of `except Exception`
_probe_host_GaierrorOnly(dns, conn) ==
    LET t == ProbeAttempt(dns, conn)
    IN  IF t.raised = ""
        THEN [ok |-> TRUE, err |-> "", connects |-> t.connects, raises |-> FALSE]
        ELSE IF t.raised = "gaierror"
        THEN [ok |-> FALSE, err |-> t.raised, connects |-> t.connects,
              raises |-> FALSE]
        ELSE [ok |-> FALSE, err |-> "", connects |-> t.connects, raises |-> TRUE]

\* (ok, err) as returned, err = "" for None; raises tells whether the
\* exception leaves the function instead
_probe_host(dns, conn) ==
    LET t == ProbeAttempt(dns, conn)
    IN  IF t.raised = ""
        THEN [ok |-> TRUE, err |-> "", connects |-> t.connects, raises |-> FALSE]
        ELSE IF t.raised \in Exceptions
        THEN [ok |-> FALSE, err |-> t.raised, connects |-> t.connects,
              raises |-> FALSE]
        ELSE [ok |-> FALSE, err |-> "", connects |-> t.connects, raises |-> TRUE]

\* the time _probe_host blocks the event loop
ProbeTimes(dns, conn, T_CONNECT) ==
    {d + c : d \in 0..MaxDnsTime,
             c \in IF dns # "resolved" THEN {0}
                   ELSE IF conn = "timed out" THEN {T_CONNECT}
                   ELSE 0..T_CONNECT}

\* net[host] = {"ok": ok, **({"error": err} if err else {})}
NetEntry(r) ==
    IF r.err # "" THEN [ok |-> r.ok, error |-> r.err] ELSE [ok |-> r.ok]

Providers == {"openai", "groq"}

ProviderKey(c, p) == IF p = "openai" THEN c.OPENAI_API_KEY ELSE c.GROQ_API_KEY

\* the statuses a provider may answer with, and a transport error
HttpStatuses == {200, 401, 403, 500}
HttpErrors == {"ConnectError", "ReadTimeout"}
HttpOutcomes ==
    {[status |-> s, error |-> ""] : s \in HttpStatuses}
    \cup {[status |-> 0, error |-> e] : e \in HttpErrors}

\* out[p] after `r = await client.get(...)` returned (o.error = "") or raised
ProviderResult(o) ==
    IF o.error # "" THEN [ok |-> FALSE, error |-> o.error]
    ELSE [ok |-> o.status \in {200, 401, 403}, status |-> o.status]

MissingKey == [ok |-> FALSE, error |-> "missing_key"]

\* a key test that looks at the OpenAI key for both providers
SendsRequest_OpenaiKeyForBoth(c, p) == c.OPENAI_API_KEY # ""

\* `if OPENAI_API_KEY:` / `if GROQ_API_KEY:`: is a GET issued for provider p
SendsRequest(c, p) == ProviderKey(c, p) # ""

----------------------------------------------------------------------------
(* /health *)

\* dict.get("ok", False)
GetOk(v) == IF "ok" \in DOMAIN v THEN v.ok ELSE FALSE

\* ok_hosts = all(v.get("ok", False) for v in net.values()) if net else True
OkHosts(n) == IF DOMAIN n # {} THEN \A h \in DOMAIN n : GetOk(n[h]) ELSE TRUE

\* a health verdict that also demands every provider probe to be ok
HealthOk_ProvidersHard(n, providers) ==
    OkHosts(n) /\ \A p \in DOMAIN providers : GetOk(providers[p])

\* result["ok"] = bool(ok_hosts and ok_providers), ok_providers = True
HealthOk(n, providers) == OkHosts(n) /\ TRUE

\* the payload _do returns
HealthPayload(c, n, providers) ==
    LET result == [service |-> c.SERVICE_NAME,
                   version |-> c.BUILD_VERSION,
                   providers |-> [allow |-> c.ALLOW_PROVIDERS,
                                  deny |-> c.DENY_PROVIDERS],
                   network |-> [allowed_hosts |-> c.ALLOWED_HOSTS],
                   checks |-> [network |-> n, providers |-> providers],
                   ok |-> HealthOk(n, providers)]
    IN  IF ~result.ok THEN Put(result, "reason", "network checks failed")
        ELSE result

\* a status that tests the presence of the "ok" key, not its value
HealthStatus_KeyPresent(pay) == IF "ok" \in DOMAIN pay THEN 200 ELSE 503

\* status = 200 if payload.get("ok") else 503
HealthStatus(pay) == IF GetOk(pay) THEN 200 ELSE 503

JSONResponse(status, content, headers, at) ==
    [status |-> status, content |-> content, headers |-> headers, at |-> at]

HealthResponse(pay, t, at) ==
    JSONResponse(HealthStatus(pay), pay, [X_Trace_Id |-> t], at)

\* the except asyncio.TimeoutError branch
TimeoutResponse(t, at) ==
    JSONResponse(503, [ok |-> FALSE, reason |-> "health timeout", traceId |-> t],
                 [X_Trace_Id |-> t], at)

\* /polish and /delegate: the Phase 1 handlers
ReadyResponse(t, at) ==
    JSONResponse(200, [ok |-> TRUE, status |-> "ready", traceId |-> t],
                 [X_Trace_Id |-> t], at)

\* res.headers["X-Trace-Id"] = tid in _trace_logger
MiddlewareHeaders(headers, t) == Put(headers, "X_Trace_Id", t)

----------------------------------------------------------------------------
(* The requests the model sends and the snapshots it runs under *)

Paths == {"/health", "/polish", "/delegate"}

\* dict(req.headers): the trace headers of the request (keys lower-cased by
\* the framework), with none, one or several present, and an empty value
HeaderChoices ==
    { EmptyDict,
      ("x-trace-id" :> "abc-123"),
      ("x-request-id" :> "rid-7"),
      ("x-trace-id" :> "abc-123") @@ ("x-request-id" :> "rid-7"),
      ("x-trace-id" :> "") @@ ("trace-id" :> "t-9") }

\* request bodies: is the body well-formed JSON, and its artifactType
Bodies ==
    { [wellFormed |-> TRUE,  artifactType |-> "vs_bias_prompt"],
      [wellFormed |-> TRUE,  artifactType |-> "something_else"],
      [wellFormed |-> FALSE, artifactType |-> ""] }

NoBody == [wellFormed |-> TRUE, artifactType |-> ""]

HostLists == { <<"api.openai.com", "api.groq.com">>, <<"stall.test">> }

ApiKeys == {"", "sk-test"}

Snapshots ==
    { [SERVICE_NAME |-> "agent0-lite", BUILD_VERSION |-> "phase1",
       ALLOW_PROVIDERS |-> <<"openai", "groq">>,
       DENY_PROVIDERS |-> <<"openrouter", "anthropic", "together",
                            "replicate", "cohere", "gemini">>,
       ALLOWED_HOSTS |-> hs,
       T_HEALTH_OVERALL |-> DefaultHealthOverall,
       T_CONNECT |-> DefaultConnect, T_READ |-> DefaultRead,
       OPENAI_API_KEY |-> ko, GROQ_API_KEY |-> kg]
      : hs \in HostLists, ko \in ApiKeys, kg \in ApiKeys }

NoRequest == [path |-> "", headers |-> EmptyDict, body |-> NoBody]
NoResponse == JSONResponse(0, EmptyDict, EmptyDict, 0)

----------------------------------------------------------------------------
(* The server *)

HttpIdle ==
    /\ pc = "idle"
    /\ req = NoRequest
    /\ mwTid = ""
    /\ tid = ""
    /\ now = 0
    /\ netIdx = 1
    /\ net = EmptyDict
    /\ out = [openai |-> EmptyDict, groq |-> EmptyDict]
    /\ httpSent = {}
    /\ finishedAt = {}
    /\ probes = <<>>
    /\ resp = NoResponse
    /\ uuidCtr = 0
    /\ served = 0

Init ==
    /\ cfg \in Snapshots
    /\ HttpIdle
    /\ ContractIdle
    /\ ConfigIdle

\* _trace_logger up to `await call_next(req)`
Receive(path, headers, body) ==
    /\ pc \in {"idle", "done"}
    /\ served < MaxRequests
    /\ LET t == _trace(headers, uuidCtr)
       IN  /\ mwTid' = t.tid
           /\ uuidCtr' = t.ctr
    /\ req' = [path |-> path, headers |-> headers,
               body |-> IF path = "/polish" THEN body ELSE NoBody]
    /\ served' = served + 1
    /\ pc' = "handler"
    /\ tid' = ""
    /\ now' = 0
    /\ netIdx' = 1
    /\ net' = EmptyDict
    /\ out' = [openai |-> EmptyDict, groq |-> EmptyDict]
    /\ httpSent' = {}
    /\ finishedAt' = {}
    /\ probes' = <<>>
    /\ resp' = NoResponse
    /\ UNCHANGED cfg
    /\ UNCHANGED <<cvars, gvars>>

\* health: tid = _trace(...), then asyncio.wait_for(_do(), T_HEALTH_OVERALL)
\* arms the deadline and _do starts
HealthStart ==
    /\ pc = "handler"
    /\ req.path = "/health"
    /\ LET t == _trace(req.headers, uuidCtr)
       IN  /\ tid' = t.tid
           /\ uuidCtr' = t.ctr
    /\ now' = 0
    /\ pc' = "net"
    /\ UNCHANGED <<cfg, req, mwTid, netIdx, net, out, httpSent, finishedAt,
                   probes, resp, served>>
    /\ UNCHANGED <<cvars, gvars>>

\* one turn of `for host in ALLOWED_HOSTS`: _probe_host is a blocking call,
\* the event loop runs nothing else (no timer either) until it returns
ProbeHost(dns, conn, d) ==
    /\ pc = "net"
    /\ netIdx <= Len(cfg.ALLOWED_HOSTS)
    /\ d \in ProbeTimes(dns, conn, cfg.T_CONNECT)
    /\ LET r == _probe_host(dns, conn)
       IN  /\ net' = Put(net, cfg.ALLOWED_HOSTS[netIdx], NetEntry(r))
           /\ probes' = Append(probes,
                  [host |-> cfg.ALLOWED_HOSTS[netIdx], dns |-> dns,
                   conn |-> IF r.connects = 0 THEN "not attempted" ELSE conn,
                   ok |-> r.ok, err |-> r.err, connects |-> r.connects,
                   raises |-> r.raises])
    /\ netIdx' = netIdx + 1
    /\ now' = now + d
    /\ UNCHANGED <<cfg, pc, req, mwTid, tid, out, httpSent, finishedAt, resp,
                   uuidCtr, served>>
    /\ UNCHANGED <<cvars, gvars>>

\* _provider_probe reaches `if <P>_API_KEY:` for provider p: with a key the
\* GET is issued and the coroutine suspends, without one out[p] is set
ProviderStep(p, at, next) ==
    /\ pc = at
    /\ IF SendsRequest(cfg, p)
       THEN /\ httpSent' = httpSent \cup {p}
            /\ pc' = "await_" \o p
            /\ out' = out
       ELSE /\ out' = [out EXCEPT ![p] = MissingKey]
            /\ pc' = next
            /\ httpSent' = httpSent
    /\ UNCHANGED <<cfg, req, mwTid, tid, now, netIdx, net, finishedAt,
                   probes, resp, uuidCtr, served>>
    /\ UNCHANGED <<cvars, gvars>>

ProviderOpenai ==
    /\ netIdx > Len(cfg.ALLOWED_HOSTS)
    /\ ProviderStep("openai", "net", "groq")

\* the groq branch entered while the GET to openai is awaited
ProviderGroq_WhileOpenaiAwaited == ProviderStep("groq", "await_openai", "close")

ProviderGroq == ProviderStep("groq", "groq", "close")

\* the GET to provider p completes after d seconds with outcome o, before the
\* deadline timer fires
HttpResponse(p, o, d) ==
    /\ pc = "await_" \o p
    /\ d \in 0..cfg.T_READ
    /\ now < cfg.T_HEALTH_OVERALL
    /\ now + d <= cfg.T_HEALTH_OVERALL
    /\ now' = now + d
    /\ out' = [out EXCEPT ![p] = ProviderResult(o)]
    /\ pc' = IF p = "openai" THEN "groq" ELSE "close"
    /\ UNCHANGED <<cfg, req, mwTid, tid, netIdx, net, httpSent, finishedAt,
                   probes, resp, uuidCtr, served>>
    /\ UNCHANGED <<cvars, gvars>>

\* the deadline timer of wait_for fires while _do is suspended in a GET:
\* _do is cancelled and health answers from `except asyncio.TimeoutError`
HealthTimeout ==
    /\ pc \in {"await_openai", "await_groq"}
    /\ now + cfg.T_READ >= cfg.T_HEALTH_OVERALL
    /\ now' = Max(now, cfg.T_HEALTH_OVERALL)
    /\ resp' = TimeoutResponse(tid, now')
    /\ pc' = "returned"
    /\ UNCHANGED <<cfg, req, mwTid, tid, netIdx, net, out, httpSent,
                   finishedAt, probes, uuidCtr, served>>
    /\ UNCHANGED <<cvars, gvars>>

\* _do aggregates and returns; wait_for hands the payload to health
HealthFinish ==
    /\ pc = "close"
    /\ finishedAt' = {now}
    /\ resp' = HealthResponse(HealthPayload(cfg, net, out), tid, now)
    /\ pc' = "returned"
    /\ UNCHANGED <<cfg, req, mwTid, tid, now, netIdx, net, out, httpSent,
                   probes, uuidCtr, served>>
    /\ UNCHANGED <<cvars, gvars>>

\* polish / delegate
Ready(path) ==
    /\ pc = "handler"
    /\ req.path = path
    /\ LET t == _trace(req.headers, uuidCtr)
       IN  /\ tid' = t.tid
           /\ uuidCtr' = t.ctr
           /\ resp' = ReadyResponse(t.tid, now)
    /\ pc' = "returned"
    /\ UNCHANGED <<cfg, req, mwTid, now, netIdx, net, out, httpSent,
                   finishedAt, probes, served>>
    /\ UNCHANGED <<cvars, gvars>>

Polish == Ready("/polish")

Delegate == Ready("/delegate")

\* _trace_logger after call_next returned. The `except Exception` branch of
\* the middleware is not an action: with str-valued configuration none of
\* the three handlers raises (probe errors are caught inside the probes).
MiddlewareReturn ==
    /\ pc = "returned"
    /\ resp' = [resp EXCEPT !.headers = MiddlewareHeaders(@, mwTid)]
    /\ pc' = "done"
    /\ UNCHANGED <<cfg, req, mwTid, tid, now, netIdx, net, out, httpSent,
                   finishedAt, probes, uuidCtr, served>>
    /\ UNCHANGED <<cvars, gvars>>

Next ==
    \/ \E path \in Paths, headers \in HeaderChoices, body \in Bodies :
          Receive(path, headers, body)
    \/ HealthStart
    \/ \E dns \in DnsOutcomes, conn \in ConnOutcomes,
          d \in 0..(MaxDnsTime + cfg.T_CONNECT) : ProbeHost(dns, conn, d)
    \/ ProviderOpenai
    \/ ProviderGroq
    \/ \E p \in Providers, o \in HttpOutcomes, d \in 0..cfg.T_READ :
          HttpResponse(p, o, d)
    \/ HealthTimeout
    \/ HealthFinish
    \/ Polish
    \/ Delegate
    \/ MiddlewareReturn

Spec == Init /\ [][Next]_vars

----------------------------------------------------------------------------
(* The contract pipeline: validate_vs_bias_prompt, then polish_vs_bias_prompt *)

\* calls of polish_vs_bias_prompt on one contract
MaxPolishCalls == 2

UserQueries == {Rep("q", n) : n \in {9, 10, 2000, 2001}}

\* engineered prompts around the length bounds, with leading, trailing and
\* internal whitespace, and of whitespace only
EngineeredPrompts ==
    { Rep("x", 49), Rep("x", 50), Rep("x", 5000), Rep("x", 5001),
      Rep(" ", 50),
      <<" ">> \o Rep("x", 48) \o <<"\n">>,
      <<" ", "\n">> \o Rep("a", 25) \o <<" ", "\t", " ">> \o Rep("b", 25)
          \o <<"\n", " ", "\r">> }

\* {} stands for a payload without the key
NotesChoices == {{}, {<<>>}, {Rep("n", 1000)}, {Rep("n", 1001)}}

DimensionChoices ==
    { {}, {<<>>}, {<<Gender>>}, {<<Race, Gender, Race>>},
      {<<Gender, Race, Age, Disability, Religion, Nationality, SexualOrientation>>},
      {<<Age, Age, Age, Age, Age, Age, Age>>},
      {<<Gender, Race, Age, Disability, Religion, Nationality, SexualOrientation,
         Gender>>},
      {<<Gender, Political>>} }

ArtifactTypeChoices == {{}, {"vs_bias_prompt"}, {"something_else"}}

\* the dict with the keys ks of d
Restrict(d, ks) == [k \in ks |-> d[k]]

\* the dict with key k -> v for every k whose choice opt[k] is {v}
DictOf(opt) ==
    [k \in {j \in DOMAIN opt : opt[j] # {}} |-> CHOOSE v \in opt[k] : TRUE]

Contents ==
    { DictOf([user_query |-> {uq}, engineered_prompt |-> {ep},
              notes_for_lite |-> nl, bias_dimensions |-> bd])
      : uq \in UserQueries, ep \in EngineeredPrompts,
        nl \in NotesChoices, bd \in DimensionChoices }

GoodContent ==
    [user_query |-> Rep("q", 10), engineered_prompt |-> Rep("x", 50)]

ContextDict == [app_name |-> "VS Bias Audit Builder"]
InstructionsDict == [preserve_intent |-> TRUE]

Payloads ==
    { DictOf([artifact_type |-> at, content |-> {c}, context |-> {ContextDict},
              polish_instructions |-> {InstructionsDict}, request_id |-> {}])
      : at \in ArtifactTypeChoices, c \in Contents }
    \cup
    { DictOf([artifact_type |-> at, content |-> c, context |-> cx,
              polish_instructions |-> pi, request_id |-> {"req-1"}])
      : at \in ArtifactTypeChoices,
        c \in {{}, {GoodContent}, {Restrict(GoodContent, {"engineered_prompt"})}},
        cx \in {{}, {ContextDict}}, pi \in {{}, {InstructionsDict}} }

InitContract ==
    /\ payload \in Payloads
    /\ contract = NotValidated
    /\ polished = <<>>
    /\ clock = 0
    /\ cfg \in {c \in Snapshots : c.ALLOWED_HOSTS = <<"stall.test">>
                                  /\ c.OPENAI_API_KEY = "" /\ c.GROQ_API_KEY = ""}
    /\ HttpIdle
    /\ ConfigIdle

\* contract = validate_vs_bias_prompt(payload)
Validate ==
    /\ contract = NotValidated
    /\ contract' = validate_vs_bias_prompt(payload)
    /\ UNCHANGED <<payload, polished, clock>>
    /\ UNCHANGED <<hvars, gvars>>

\* polish_vs_bias_prompt(contract) on the validated contract; dt is the time
\* that passes before the next call
PolishCall(dt) ==
    /\ contract.status = "valid"
    /\ Len(polished) < MaxPolishCalls
    /\ \E c \in contract.value :
          polished' = Append(polished, polish_vs_bias_prompt(c, clock))
    /\ clock' = clock + dt
    /\ UNCHANGED <<payload, contract>>
    /\ UNCHANGED <<hvars, gvars>>

NextContract ==
    \/ Validate
    \/ \E dt \in {0, 1} : PolishCall(dt)

SpecContract == InitContract /\ [][NextContract]_vars

----------------------------------------------------------------------------
(* Start-up: the environment and the YAML document the process starts with *)

\* os.environ: every variable unset ({}) or set to a value; numeric
\* variables hold decimal strings
Environments ==
    [SERVICE_NAME : {{}, {""}, {"svc-env"}},
     BUILD_VERSION : {{}, {"v-env"}},
     PORT : {{}, {<<"8","0","8","0">>}},
     ALLOW_PROVIDERS : {{}, {<<>>}, {<<"G","r","o","q">>}},
     DENY_PROVIDERS : {{}, {<<" ",","," ">>}},
     ALLOWED_HOSTS : {{}, {<<>>}, {<<",">>},
                      {<<" ","A",".","t","e","s","t"," ",",","b",".","t","e","s","t",",">>}},
     T_HEALTH_OVERALL : {{}, {<<"2">>}},
     T_DNS : {{}},
     T_CONNECT : {{}, {<<"1">>}},
     T_READ : {{}, {<<"1","0">>}},
     OPENAI_API_KEY : {{}, {"sk-env"}},
     GROQ_API_KEY : {{}}]

\* _raw: no file (or an empty one), a full document, documents with some keys
YamlDocuments ==
    { EmptyDict,
      [service_name |-> "svc-yaml", build_version |-> "v-yaml", port |-> 5050,
       providers |-> [allow |-> << <<" ","O","p","e","n","A","I"," ">> >>,
                      deny |-> << <<"c","o","h","e","r","e">> >>],
       network |-> [allowed_hosts |-> << <<"I","n","t",".","T","e","s","t">> >>],
       timeouts |-> [health_overall |-> 9, dns |-> 1, connect |-> 4, read |-> 6]],
      [providers |-> [deny |-> << <<" ","X","a","i">> >>],
       network |-> EmptyDict,
       timeouts |-> [read |-> 6]],
      [service_name |-> "svc-yaml",
       network |-> [allowed_hosts |-> << <<"y",".","t","e","s","t">>, <<"Z">> >>]] }

InitConfig ==
    /\ env \in Environments
    /\ yaml \in YamlDocuments
    /\ resolved = {}
    /\ cfg \in {c \in Snapshots : c.ALLOWED_HOSTS = <<"stall.test">>
                                  /\ c.OPENAI_API_KEY = "" /\ c.GROQ_API_KEY = ""}
    /\ HttpIdle
    /\ ContractIdle

\* import of app.py: the module-level assignments
LoadConfig ==
    /\ resolved = {}
    /\ resolved' = {ResolveConfig(env, yaml)}
    /\ UNCHANGED <<env, yaml>>
    /\ UNCHANGED <<hvars, cvars>>

NextConfig == LoadConfig

SpecConfig == InitConfig /\ [][NextConfig]_vars

----------------------------------------------------------------------------
(* Properties of the server *)

Answered == pc = "done"
HealthAnswered == Answered /\ req.path = "/health"

\* the fan-out (all network probes and the provider probes) had finished
\* when the overall deadline expired
FanOutInTime == \E t \in finishedAt : t <= cfg.T_HEALTH_OVERALL

IsTimeoutResponse(r) ==
    /\ r.status = 503
    /\ r.content.ok = FALSE
    /\ "reason" \in DOMAIN r.content
    /\ r.content.reason = "health timeout"

\* C1: a /health request whose probe fan-out has not finished when the
\* overallHealth deadline expires is answered at the deadline with the
\* timeout response (503, ok=false, reason="health timeout"); it never waits
\* for an outstanding probe and never returns the probes' results.
C1_TimeoutAtDeadline ==
    (HealthAnswered /\ ~FanOutInTime)
        => (IsTimeoutResponse(resp) /\ resp.at = cfg.T_HEALTH_OVERALL)

\* C2: when all probes of a /health request complete before the deadline, the
\* aggregate ok of the response is the AND of the network probes' ok over all
\* allowed hosts, whatever the provider probes returned.
C2_OkIsAndOfNetworkProbes ==
    (HealthAnswered /\ FanOutInTime)
        => (resp.content.ok
              <=> \A i \in 1..Len(cfg.ALLOWED_HOSTS) :
                     net[cfg.ALLOWED_HOSTS[i]].ok)

\* a healthy answer although a provider probe failed and another had no key
C2_Witness ==
    /\ HealthAnswered /\ FanOutInTime
    /\ resp.content.ok
    /\ \E p \in Providers : out[p] = [ok |-> FALSE, status |-> 500]
    /\ \E p \in Providers : out[p] = [ok |-> FALSE, error |-> "missing_key"]

\* C3: a /health response has status 200 exactly when its body has ok=true
\* and 503 otherwise; a 503 of the deadline carries reason "health timeout",
\* a 503 of failed network probes another reason, and an ok=true body
\* carries no reason.
C3_StatusMatchesOk ==
    HealthAnswered =>
        /\ resp.status \in {200, 503}
        /\ resp.status = 200 <=> resp.content.ok = TRUE
        /\ resp.content.ok => "reason" \notin DOMAIN resp.content
        /\ resp.status = 503 =>
              /\ "reason" \in DOMAIN resp.content
              /\ finishedAt = {} <=> resp.content.reason = "health timeout"

\* an unhealthy answer of failed network probes, with its own reason
C3_Witness ==
    /\ HealthAnswered
    /\ finishedAt # {}
    /\ resp.status = 503
    /\ resp.content.reason = "network checks failed"
    /\ \E h \in DOMAIN net : ~net[h].ok

\* C4: every response carries a trace id in the X-Trace-Id header and in the
\* body field traceId, the two are equal, and equal to the inbound trace
\* header when the request had one.
C4_TraceIdInHeaderAndBody ==
    Answered =>
        /\ "X_Trace_Id" \in DOMAIN resp.headers
        /\ "traceId" \in DOMAIN resp.content
        /\ resp.content.traceId = resp.headers.X_Trace_Id
        /\ TraceLookup(req.headers, 1) # ""
              => resp.headers.X_Trace_Id = TraceLookup(req.headers, 1)

\* C5: a POST /polish whose body is malformed JSON or whose artifactType is
\* not "vs_bias_prompt" is answered with status 400.
C5_BadPolishRequestIs400 ==
    (Answered /\ req.path = "/polish"
       /\ (~req.body.wellFormed \/ req.body.artifactType # "vs_bias_prompt"))
        => resp.status = 400

\* C6: a provider whose API key is not configured is never sent an HTTP
\* request and its probe result is exactly {ok: false, error: "missing_key"},
\* whatever the other provider's key and outcome.
C6_MissingKeyNoRequest ==
    \A p \in Providers :
        ProviderKey(cfg, p) = "" =>
            /\ p \notin httpSent
            /\ out[p] \in {EmptyDict, [ok |-> FALSE, error |-> "missing_key"]}
            /\ (HealthAnswered /\ finishedAt # {}) =>
                  resp.content.checks.providers[p]
                      = [ok |-> FALSE, error |-> "missing_key"]

\* groq has no key and reports missing_key while openai was asked and answered
C6_Witness ==
    /\ HealthAnswered /\ finishedAt # {}
    /\ cfg.GROQ_API_KEY = "" /\ cfg.OPENAI_API_KEY # ""
    /\ httpSent = {"openai"}
    /\ out.openai = [ok |-> TRUE, status |-> 200]
    /\ resp.content.checks.providers.groq = [ok |-> FALSE, error |-> "missing_key"]

----------------------------------------------------------------------------
(* Properties of the contract pipeline *)

Validated == contract.status # "pending"

InRange(n, lo, hi) == n >= lo /\ n <= hi

\* the bias dimensions of a content dict, the default when it has none
DimensionsOf(c) ==
    IF "bias_dimensions" \in DOMAIN c THEN c.bias_dimensions
    ELSE <<Gender, Race, Age>>

\* what the contract demands of a content block
ContentAcceptable(c) ==
    /\ "user_query" \in DOMAIN c
    /\ InRange(Len(c.user_query), 10, 2000)
    /\ "engineered_prompt" \in DOMAIN c
    /\ InRange(Len(c.engineered_prompt), 50, 5000)
    /\ "notes_for_lite" \in DOMAIN c => Len(c.notes_for_lite) <= 1000
    /\ InRange(Len(DimensionsOf(c)), 1, 7)
    /\ \A i \in 1..Len(DimensionsOf(c)) :
          DimensionsOf(c)[i] \in {Gender, Race, Age, Disability, Religion,
                                  Nationality, SexualOrientation}

\* the rest of the payload is in order
EnvelopeAcceptable(p) ==
    /\ {"content", "context", "polish_instructions"} \subseteq DOMAIN p
    /\ "artifact_type" \in DOMAIN p => p.artifact_type = "vs_bias_prompt"

\* C7: validate_vs_bias_prompt accepts a content block exactly when userQuery
\* has length 10..2000, engineeredPrompt has length 50..5000, notesForLite is
\* absent or at most 1000 long, and biasDimensions (the default when absent)
\* has 1..7 entries, each one of the 7 enumerated values, duplicates allowed.
C7_ContentAcceptedExactlyWhenInBounds ==
    (Validated /\ "content" \in DOMAIN payload) =>
        /\ (\A e \in contract.errors : Len(e) # 2)
              <=> ContentAcceptable(payload.content)
        /\ EnvelopeAcceptable(payload) =>
              (contract.status = "valid" <=> ContentAcceptable(payload.content))

\* a content block on the lower length bounds, with seven dimensions and a
\* duplicate among them, is accepted
C7_Witness ==
    /\ contract.status = "valid"
    /\ Len(payload.content.user_query) = 10
    /\ Len(payload.content.engineered_prompt) = 50
    /\ "notes_for_lite" \in DOMAIN payload.content
    /\ Len(payload.content.notes_for_lite) = 1000
    /\ "bias_dimensions" \in DOMAIN payload.content
    /\ payload.content.bias_dimensions = <<Age, Age, Age, Age, Age, Age, Age>>

\* C8 as stated: a payload with no artifactType, or with an artifactType
\* other than "vs_bias_prompt", is rejected and no contract is produced.
C8_ArtifactTypePresenceAndValue ==
    (Validated /\ ("artifact_type" \notin DOMAIN payload
                   \/ payload.artifact_type # "vs_bias_prompt"))
        => (contract.status = "error" /\ contract.value = {})

\* C8 amended: validate_vs_bias_prompt enforces the literal value of
\* artifactType, not its presence. A payload whose artifactType is another
\* value is rejected with an error on artifact_type and no contract; a payload
\* without artifactType gets no error on it and, when the rest is valid,
\* yields a contract whose artifact_type is "vs_bias_prompt".
C8_ArtifactTypeValueEnforcedWhenPresent ==
    Validated =>
        /\ ("artifact_type" \in DOMAIN payload
            /\ payload.artifact_type # "vs_bias_prompt")
              => /\ contract.status = "error"
                 /\ contract.value = {}
                 /\ <<"artifact_type">> \in contract.errors
        /\ "artifact_type" \notin DOMAIN payload
              => /\ <<"artifact_type">> \notin contract.errors
                 /\ (/\ {"content", "context", "polish_instructions"}
                            \subseteq DOMAIN payload
                     /\ ContentAcceptable(payload.content))
                       => contract.status = "valid"
        /\ \A c \in contract.value : c.artifact_type = "vs_bias_prompt"

\* a payload in order but for its artifactType is rejected for that alone
C8_Witness ==
    /\ contract.status = "error"
    /\ "artifact_type" \in DOMAIN payload
    /\ payload.artifact_type = "something_else"
    /\ contract.errors = {<<"artifact_type">>}

\* t is s with only leading and trailing whitespace removed
IsTrimOf(t, s) ==
    \E i \in 0..Len(s) :
        /\ \A k \in 1..i : s[k] \in Whitespace
        /\ i = Len(s) \/ s[i + 1] \notin Whitespace
        /\ \E j \in i..Len(s) :
              /\ \A k \in (j + 1)..Len(s) : s[k] \in Whitespace
              /\ j = i \/ s[j] \notin Whitespace
              /\ t = SubSeq(s, i + 1, j)

\* the polished prompt without its first n and its last m characters
Between(s, n, m) == SubSeq(s, n + 1, Len(s) - m)

\* C9: for a validated contract, the polished engineeredPrompt is header +
\* trimmed + footer exactly: the header lists the biasDimensions comma-joined
\* in input order with duplicates kept, trimmed is the original prompt with
\* only leading and trailing whitespace removed, the footer is the fixed
\* block; userQuery, notesForLite and biasDimensions equal the input values,
\* and every call on the same contract yields the same polishedArtifact.
C9_PolishedIsHeaderTrimmedFooter ==
    \A k \in 1..Len(polished) :
        LET art == polished[k].polished_artifact
            c == payload.content
            header == HeaderHead \o Join(CommaSpace, DimensionsOf(c)) \o HeaderTail
            ep == art.engineered_prompt
        IN  /\ Len(ep) >= Len(header) + Len(Footer)
            /\ SubSeq(ep, 1, Len(header)) = header
            /\ SubSeq(ep, Len(ep) - Len(Footer) + 1, Len(ep)) = Footer
            /\ IsTrimOf(Between(ep, Len(header), Len(Footer)), c.engineered_prompt)
            /\ art.user_query = c.user_query
            /\ art.notes_for_lite
                 = (IF "notes_for_lite" \in DOMAIN c THEN {c.notes_for_lite} ELSE {})
            /\ art.bias_dimensions = DimensionsOf(c)
            /\ art = polished[1].polished_artifact

\* two calls at different times on a contract whose prompt has leading,
\* internal and trailing whitespace and whose dimensions repeat
C9_Witness ==
    /\ Len(polished) = 2
    /\ polished[1].polish_report.timestamp # polished[2].polish_report.timestamp
    /\ payload.content.engineered_prompt[1] \in Whitespace
    /\ payload.content.engineered_prompt[Len(payload.content.engineered_prompt)]
          \in Whitespace
    /\ \E i \in 3..30 : payload.content.engineered_prompt[i] \in Whitespace
    /\ "bias_dimensions" \in DOMAIN payload.content
    /\ payload.content.bias_dimensions = <<Race, Gender, Race>>

----------------------------------------------------------------------------
(* Properties of the config resolution *)

\* environment value when set, else YAML value when the key is present, else
\* the default
Precedence(e, name, fromEnv, section, key, fromYaml, default) ==
    IF e[name] # {} THEN fromEnv
    ELSE IF key \in DOMAIN section THEN fromYaml
    ELSE default

ExpectedStr(e, name, section, key, default) ==
    Precedence(e, name, getenvOr(e, name, ""), section, key,
               Get(section, key, ""), default)

ExpectedInt(e, name, section, key, default) ==
    Precedence(e, name, int(getenvOr(e, name, <<>>)), section, key,
               Get(section, key, 0), default)

ExpectedCsv(e, name, section, key, default) ==
    Precedence(e, name, _split_csv(e[name]), section, key,
               Normalised(Get(section, key, <<>>)), default)

\* C10: every configuration key resolves to the environment variable's value
\* when the variable is set, else to the YAML value when the key is in the
\* document, else to the default; for ALLOW_PROVIDERS, DENY_PROVIDERS and
\* ALLOWED_HOSTS also when the variable is set to a value with no non-empty
\* entry ("" or ","), which then resolves to the empty list.
C10_EnvThenYamlThenDefault ==
    \A r \in resolved :
        LET providers == Get(yaml, "providers", EmptyDict)
            network == Get(yaml, "network", EmptyDict)
            timeouts == Get(yaml, "timeouts", EmptyDict)
        IN  /\ r.SERVICE_NAME
                 = ExpectedStr(env, "SERVICE_NAME", yaml, "service_name", "agent0-lite")
            /\ r.BUILD_VERSION
                 = ExpectedStr(env, "BUILD_VERSION", yaml, "build_version", "phase1")
            /\ r.PORT = ExpectedInt(env, "PORT", yaml, "port", 4040)
            /\ r.T_HEALTH_OVERALL
                 = ExpectedInt(env, "T_HEALTH_OVERALL", timeouts, "health_overall", 8)
            /\ r.T_DNS = ExpectedInt(env, "T_DNS", timeouts, "dns", 2)
            /\ r.T_CONNECT = ExpectedInt(env, "T_CONNECT", timeouts, "connect", 3)
            /\ r.T_READ = ExpectedInt(env, "T_READ", timeouts, "read", 5)
            /\ r.OPENAI_API_KEY
                 = ExpectedStr(env, "OPENAI_API_KEY", EmptyDict, "", "")
            /\ r.GROQ_API_KEY
                 = ExpectedStr(env, "GROQ_API_KEY", EmptyDict, "", "")
            /\ r.ALLOW_PROVIDERS
                 = ExpectedCsv(env, "ALLOW_PROVIDERS", providers, "allow",
                               DefaultAllowProviders)
            /\ r.DENY_PROVIDERS
                 = ExpectedCsv(env, "DENY_PROVIDERS", providers, "deny",
                               DefaultDenyProviders)
            /\ r.ALLOWED_HOSTS
                 = ExpectedCsv(env, "ALLOWED_HOSTS", network, "allowed_hosts",
                               DefaultAllowedHosts)

----------------------------------------------------------------------------
(* Properties of the probes *)

\* C11: every _probe_host call returns a result and raises nothing, whatever
\* gethostbyname and create_connection do: when resolution fails the result
\* is ok = false with the error message and no connect is attempted; when
\* resolution succeeds and the connect is refused or times out the result is
\* ok = false with a message; ok = true, with no error, is returned only when
\* both succeeded; and no probe makes more than one connect attempt.
C11_ProbeAlwaysReturnsOneConnect ==
    \A i \in DOMAIN probes :
        LET e == probes[i]
        IN  /\ ~e.raises
            /\ e.host \in DOMAIN net
            /\ net[e.host].ok = e.ok
            /\ e.dns # "resolved"
                  => ~e.ok /\ e.err # "" /\ e.connects = 0
                       /\ e.conn = "not attempted"
            /\ (e.dns = "resolved" /\ e.conn # "connected")
                  => ~e.ok /\ e.err # "" /\ e.connects = 1
            /\ e.ok => e.dns = "resolved" /\ e.conn = "connected" /\ e.err = ""
            /\ e.connects <= 1

\* one request probed a host whose name did not resolve, then one whose
\* connect timed out
C11_Witness ==
    /\ Len(probes) = 2
    /\ probes[1].dns = "gaierror"
    /\ probes[1].connects = 0
    /\ ~probes[1].ok
    /\ probes[2].dns = "resolved"
    /\ probes[2].conn = "timed out"
    /\ ~probes[2].ok

BothKeys == cfg.OPENAI_API_KEY # "" /\ cfg.GROQ_API_KEY # ""

\* the GET to provider p was issued and _provider_probe has no outcome for it
Outstanding(p) == p \in httpSent /\ out[p] = EmptyDict

\* C12 as stated: with both keys configured the two provider probes of one
\* /health request run concurrently, the GET to groq being issued while the
\* GET to openai is outstanding; so whenever the openai probe has its
\* outcome, the GET to groq has been issued.
C12_ProviderProbesConcurrent ==
    (BothKeys /\ out.openai # EmptyDict) => "groq" \in httpSent

\* C12 amended: with both keys configured the two provider probes of one
\* /health request run one after the other: the GET to groq is issued only
\* once the openai probe has its outcome, so the two GETs are never
\* outstanding together; and each wait for a GET lasts at most T_READ.
C12_ProviderProbesSequential ==
    /\ [](BothKeys =>
            /\ "groq" \in httpSent => out.openai # EmptyDict
            /\ ~(Outstanding("openai") /\ Outstanding("groq")))
    /\ [][(BothKeys /\ pc \in {"await_openai", "await_groq"})
            => now' - now <= cfg.T_READ]_vars

\* the GET to groq is outstanding and the openai probe has been answered
C12_Witness ==
    /\ BothKeys
    /\ pc = "await_groq"
    /\ Outstanding("groq")
    /\ "openai" \in httpSent
    /\ "status" \in DOMAIN out.openai

====
